---- MODULE Spec2Model ----
(***************************************************************************)
(* Model of src/synchronization_thread_safe_stack/src/main.rs:             *)
(* a Box-linked Stack<i32> and a BufWriter<File>, each behind its own      *)
(* Arc<Mutex<..>>, exercised by worker threads that lock the stack, lock   *)
(* the writer, run test_stack and drop both guards; main spawns the        *)
(* workers, joins them in spawn order, prints and leaves scope.            *)
(***************************************************************************)
EXTENDS Integers, Sequences, FiniteSets, TLC

\* ------------------------------------------------------------------ bounds
\* main.rs:57 spawns 200 threads; the model runs NumWorkers of them.
NumWorkers == 3
\* main.rs:87 iterates 500 times; the model runs Iterations blocks.
Iterations == 2
\* BufWriter::new has a byte capacity (std default); the model counts whole
\* lines and lets the buffer hold BufCap of them before it must flush.
BufCap == 4
\* Harness for the Stack<T> unit claims: values, depth of the initial stack,
\* number of operations applied.
MaxValue == 2
MaxDepth == 2
MaxOps == 6

Workers == 1..NumWorkers
Values == 1..MaxValue

\* ------------------------------------------------------------------ state
VARIABLES
    mainpc,       \* position of main: create, spawn, join, print, scope_end,
                  \* exited, unwind, aborted
    spawned,      \* number of threads spawned so far (loop at main.rs:57)
    joined,       \* number of handles joined so far (loop at main.rs:75)
    printed,      \* number of times "Program completed." was printed
    wpc,          \* position of each worker thread
    witer,        \* each worker's loop counter i in test_stack
    wstep,        \* each worker's position 1..12 inside the loop body
    wret,         \* each worker's Option<T> returned by stack.pop()
    panicking,    \* each worker: is the thread unwinding from a panic
    stackLock,    \* holder of shared_stack's mutex, 0 when free
    writerLock,   \* holder of shared_writer's mutex, 0 when free
    stackPoison,  \* poison flag of shared_stack's mutex
    writerPoison, \* poison flag of shared_writer's mutex
    top,          \* Stack::top, an Option<Box<StackNode<i32>>>
    buf,          \* lines held in the BufWriter's buffer
    file,         \* lines written to output.txt
    writerRefs,   \* strong count of the Arc around the writer
    sinkReleased, \* the BufWriter (and the File in it) has been dropped
    ioFailed,     \* some File::create or write to the file returned an error
    acquired,     \* workers in the order they entered test_stack
    npush,        \* number of stack.push calls executed, all workers together
    npop,         \* number of stack.pop calls that returned Some(..)
    ustack,       \* stack under test in the Stack<T> harness
    uinit,        \* the harness's initial stack
    uhist         \* operations the harness applied, with results

progVars == <<mainpc, spawned, joined, printed, wpc, witer, wstep, wret,
              panicking, stackLock, writerLock, stackPoison, writerPoison,
              top, buf, file, writerRefs, sinkReleased, ioFailed, acquired,
              npush, npop>>
unitVars == <<ustack, uinit, uhist>>
vars == <<progVars, unitVars>>

\* ------------------------------------------------- Option and Stack<T>
\* Option<X> is a sequence of length 0 (None) or 1 (Some(x)).
None == <<>>
Some(x) == <<x>>

\* StackNode<T> { data, next: Option<Box<StackNode<T>>> }  (main.rs:7-10)
StackNode(data, next) == [data |-> data, next |-> next]

\* Stack::new  (main.rs:17-19)
StackNew == None

\* Faulty variant: the new node does not take the old top as its next.
StackPushNoLink(t, data) == Some(StackNode(data, None))

\* Stack::push: the new node takes the old top as its next, and becomes top.
StackPush(t, data) == Some(StackNode(data, t))

\* Faulty variant: top is left as take() made it, None, and node.next is dropped.
StackPopNoRelink(t) ==
    IF t = None
    THEN [ret |-> None, top |-> None]
    ELSE [ret |-> Some(t[1].data), top |-> None]

\* Faulty variant: pop returns the top element without removing its node.
StackPopPeek(t) ==
    IF t = None
    THEN [ret |-> None, top |-> None]
    ELSE [ret |-> Some(t[1].data), top |-> t]

\* Stack::pop: returns [ret, top]; take() leaves None, and on Some(node) the
\* closure sets top to node.next and returns node.data.
StackPop(t) ==
    IF t = None
    THEN [ret |-> None, top |-> None]
    ELSE [ret |-> Some(t[1].data), top |-> t[1].next]

\* The elements of a stack, top first.
RECURSIVE Elements(_)
Elements(t) == IF t = None THEN <<>> ELSE <<t[1].data>> \o Elements(t[1].next)

\* ------------------------------------------------------------ log lines
\* A line is what writeln! formats, tagged with the thread that wrote it.
PushingLine(w, v) == [by |-> w, text |-> <<"Pushing", v>>]
PoppedLine(w, v) == [by |-> w, text |-> <<"Popped", v>>]
EmptyLine(w) == [by |-> w, text |-> <<"Stack was empty, nothing to pop">>]

\* writeln! on the BufWriter: a line that does not fit makes the buffer flush
\* to the file first; only that flush can fail, and a failed flush leaves the
\* unwritten tail in the buffer and does not take the new line.
Writeln(b, f, line) ==
    IF Len(b) + 1 > BufCap
    THEN {[buf |-> <<line>>, file |-> f \o b, ok |-> TRUE]}
         \cup {[buf |-> SubSeq(b, k + 1, Len(b)),
                file |-> f \o SubSeq(b, 1, k), ok |-> FALSE] : k \in 0..(Len(b) - 1)}
    ELSE {[buf |-> Append(b, line), file |-> f, ok |-> TRUE]}

\* Faulty variant: the BufWriter is dropped without flushing its buffer.
DropWriterNoFlush(b, f) == {[buf |-> <<>>, file |-> f, ok |-> TRUE]}

\* Drop of the BufWriter: flushes what is buffered, ignores the result, and
\* closes the file.
DropWriter(b, f) ==
    {[buf |-> <<>>, file |-> f \o b, ok |-> TRUE]}
    \cup {[buf |-> <<>>, file |-> f \o SubSeq(b, 1, k), ok |-> FALSE] : k \in 0..(Len(b) - 1)}

\* Everything appended so far and not lost, in append order.
Log == file \o buf

\* ----------------------------------------------------------------- Init
ProgInit ==
    /\ mainpc = "create"
    /\ spawned = 0
    /\ joined = 0
    /\ printed = 0
    /\ wpc = [w \in Workers |-> "unspawned"]
    /\ witer = [w \in Workers |-> 0]
    /\ wstep = [w \in Workers |-> 1]
    /\ wret = [w \in Workers |-> None]
    /\ panicking = [w \in Workers |-> FALSE]
    /\ stackLock = 0
    /\ writerLock = 0
    /\ stackPoison = FALSE
    /\ writerPoison = FALSE
    /\ top = StackNew
    /\ buf = <<>>
    /\ file = <<>>
    /\ writerRefs = 0
    /\ sinkReleased = FALSE
    /\ ioFailed = FALSE
    /\ acquired = <<>>
    /\ npush = 0
    /\ npop = 0

UnitIdle ==
    /\ ustack = StackNew
    /\ uinit = StackNew
    /\ uhist = <<>>

Init == ProgInit /\ UnitIdle

\* ------------------------------------------------------------------ main
\* The process is running: main has neither returned nor finished unwinding.
ProcessAlive == mainpc \notin {"exited", "aborted"}

\* Faulty variant: the error of File::create is not acted on and main goes on
\* to spawn the workers.
CreateFileIgnoreError ==
    /\ mainpc = "create"
    /\ \E ok \in BOOLEAN :
         /\ mainpc' = "spawn"
         /\ writerRefs' = 1
         /\ ioFailed' = (ioFailed \/ ~ok)
    /\ UNCHANGED <<spawned, joined, printed, wpc, witer, wstep, wret, panicking,
                   stackLock, writerLock, stackPoison, writerPoison, top, buf,
                   file, sinkReleased, acquired>>
    /\ UNCHANGED <<npush, npop>>
    /\ UNCHANGED unitVars

\* File::create("output.txt").expect(..), then the BufWriter, the two
\* Arc<Mutex<..>> and the empty handle vector  (main.rs:47-55)
CreateFile ==
    /\ mainpc = "create"
    /\ \E ok \in BOOLEAN :
         IF ok
         THEN /\ mainpc' = "spawn"
              /\ writerRefs' = 1
              /\ UNCHANGED ioFailed
         ELSE /\ mainpc' = "aborted"
              /\ ioFailed' = TRUE
              /\ UNCHANGED writerRefs
    /\ UNCHANGED <<spawned, joined, printed, wpc, witer, wstep, wret, panicking,
                   stackLock, writerLock, stackPoison, writerPoison, top, buf,
                   file, sinkReleased, acquired>>
    /\ UNCHANGED <<npush, npop>>
    /\ UNCHANGED unitVars

\* One turn of the spawn loop: clone both Arcs and spawn the thread.
SpawnWorker ==
    /\ mainpc = "spawn"
    /\ spawned < NumWorkers
    /\ spawned' = spawned + 1
    /\ writerRefs' = writerRefs + 1
    /\ wpc' = [wpc EXCEPT ![spawned + 1] = "lock_stack"]
    /\ UNCHANGED <<mainpc, joined, printed, witer, wstep, wret, panicking,
                   stackLock, writerLock, stackPoison, writerPoison, top, buf,
                   file, sinkReleased, ioFailed, acquired>>
    /\ UNCHANGED <<npush, npop>>
    /\ UNCHANGED unitVars

\* The spawn loop ends after NumWorkers turns.
SpawnDone ==
    /\ mainpc = "spawn"
    /\ spawned = NumWorkers
    /\ mainpc' = "join"
    /\ UNCHANGED <<spawned, joined, printed, wpc, witer, wstep, wret, panicking,
                   stackLock, writerLock, stackPoison, writerPoison, top, buf,
                   file, writerRefs, sinkReleased, ioFailed, acquired>>
    /\ UNCHANGED <<npush, npop>>
    /\ UNCHANGED unitVars

\* handle.join().unwrap(): waits for the next thread in spawn order to end;
\* panics when that thread ended by a panic.
JoinWorker ==
    /\ mainpc = "join"
    /\ joined < NumWorkers
    /\ wpc[joined + 1] = "done"
    /\ IF panicking[joined + 1]
       THEN mainpc' = "unwind" /\ UNCHANGED joined
       ELSE joined' = joined + 1 /\ UNCHANGED mainpc
    /\ UNCHANGED <<spawned, printed, wpc, witer, wstep, wret, panicking,
                   stackLock, writerLock, stackPoison, writerPoison, top, buf,
                   file, writerRefs, sinkReleased, ioFailed, acquired>>
    /\ UNCHANGED <<npush, npop>>
    /\ UNCHANGED unitVars

\* Faulty variant: main goes on to print without joining the handles.
JoinDoneEarly ==
    /\ mainpc = "join"
    /\ mainpc' = "print"
    /\ UNCHANGED <<spawned, joined, printed, wpc, witer, wstep, wret, panicking,
                   stackLock, writerLock, stackPoison, writerPoison, top, buf,
                   file, writerRefs, sinkReleased, ioFailed, acquired>>
    /\ UNCHANGED <<npush, npop>>
    /\ UNCHANGED unitVars

\* The join loop ends when every handle has been joined.
JoinDone ==
    /\ mainpc = "join"
    /\ joined = NumWorkers
    /\ mainpc' = "print"
    /\ UNCHANGED <<spawned, joined, printed, wpc, witer, wstep, wret, panicking,
                   stackLock, writerLock, stackPoison, writerPoison, top, buf,
                   file, writerRefs, sinkReleased, ioFailed, acquired>>
    /\ UNCHANGED <<npush, npop>>
    /\ UNCHANGED unitVars

\* println!("Program completed.")
PrintCompleted ==
    /\ mainpc = "print"
    /\ printed' = printed + 1
    /\ mainpc' = "scope_end"
    /\ UNCHANGED <<spawned, joined, wpc, witer, wstep, wret, panicking,
                   stackLock, writerLock, stackPoison, writerPoison, top, buf,
                   file, writerRefs, sinkReleased, ioFailed, acquired>>
    /\ UNCHANGED <<npush, npop>>
    /\ UNCHANGED unitVars

\* An Arc around the writer is dropped by its owner; the last drop drops the
\* BufWriter.
ReleaseArc ==
    /\ writerRefs' = writerRefs - 1
    /\ IF writerRefs = 1
       THEN \E o \in DropWriter(buf, file) :
              /\ buf' = o.buf
              /\ file' = o.file
              /\ ioFailed' = (ioFailed \/ ~o.ok)
              /\ sinkReleased' = TRUE
       ELSE UNCHANGED <<buf, file, ioFailed, sinkReleased>>

\* End of main's scope: shared_stack and shared_writer are dropped, main
\* returns and the process ends with success.
ScopeEnd ==
    /\ mainpc = "scope_end"
    /\ ReleaseArc
    /\ mainpc' = "exited"
    /\ UNCHANGED <<spawned, joined, printed, wpc, witer, wstep, wret, panicking,
                   stackLock, writerLock, stackPoison, writerPoison, top,
                   acquired>>
    /\ UNCHANGED <<npush, npop>>
    /\ UNCHANGED unitVars

\* main unwinds from the panic of join().unwrap(): the remaining handles are
\* dropped (detached), its Arcs are dropped, and the process ends with a
\* failure status, taking every thread still alive with it.
MainUnwind ==
    /\ mainpc = "unwind"
    /\ ReleaseArc
    /\ mainpc' = "aborted"
    /\ UNCHANGED <<spawned, joined, printed, wpc, witer, wstep, wret, panicking,
                   stackLock, writerLock, stackPoison, writerPoison, top,
                   acquired>>
    /\ UNCHANGED <<npush, npop>>
    /\ UNCHANGED unitVars

\* --------------------------------------------------------------- workers
\* Faulty variant: a lock that never blocks.
MutexFreeBroken(holder) == holder = holder

\* Mutex::lock blocks the caller while the mutex has a holder.
MutexFree(holder) == holder = 0

\* Faulty variant: the poison flag is not looked at and the data is taken
\* out of the PoisonError.
LockStackRecover(w) ==
    /\ ProcessAlive
    /\ wpc[w] = "lock_stack"
    /\ MutexFree(stackLock)
    /\ stackLock' = w
    /\ wpc' = [wpc EXCEPT ![w] = "lock_writer"]
    /\ UNCHANGED <<mainpc, spawned, joined, printed, witer, wstep, wret,
                   panicking, writerLock, stackPoison, writerPoison, top, buf,
                   file, writerRefs, sinkReleased, ioFailed, acquired>>
    /\ UNCHANGED <<npush, npop>>
    /\ UNCHANGED unitVars

\* stack_clone.lock().unwrap(): blocks while another thread holds the mutex;
\* on a poisoned mutex unwrap panics and the guard inside the error is
\* dropped at once.
LockStack(w) ==
    /\ ProcessAlive
    /\ wpc[w] = "lock_stack"
    /\ MutexFree(stackLock)
    /\ IF stackPoison
       THEN /\ panicking' = [panicking EXCEPT ![w] = TRUE]
            /\ wpc' = [wpc EXCEPT ![w] = "drop_captures"]
            /\ UNCHANGED stackLock
       ELSE /\ stackLock' = w
            /\ wpc' = [wpc EXCEPT ![w] = "lock_writer"]
            /\ UNCHANGED panicking
    /\ UNCHANGED <<mainpc, spawned, joined, printed, witer, wstep, wret,
                   writerLock, stackPoison, writerPoison, top, buf, file,
                   writerRefs, sinkReleased, ioFailed, acquired>>
    /\ UNCHANGED <<npush, npop>>
    /\ UNCHANGED unitVars

\* Faulty variant: the writer guard is a temporary dropped at once, so test_stack
\* runs without the writer lock held.
LockWriterNotHeld(w) ==
    /\ ProcessAlive
    /\ wpc[w] = "lock_writer"
    /\ MutexFree(writerLock)
    /\ IF writerPoison
       THEN /\ panicking' = [panicking EXCEPT ![w] = TRUE]
            /\ wpc' = [wpc EXCEPT ![w] = "drop_stack_guard"]
            /\ UNCHANGED acquired
       ELSE /\ wpc' = [wpc EXCEPT ![w] =
                         IF 0 < Iterations THEN "test_stack" ELSE "drop_writer_guard"]
            /\ acquired' = Append(acquired, w)
            /\ UNCHANGED panicking
    /\ UNCHANGED <<mainpc, spawned, joined, printed, witer, wstep, wret,
                   stackLock, writerLock, stackPoison, writerPoison, top, buf,
                   file, writerRefs, sinkReleased, ioFailed>>
    /\ UNCHANGED <<npush, npop>>
    /\ UNCHANGED unitVars

\* writer_clone.lock().unwrap(), with the stack guard already held; then the
\* call of test_stack, whose loop body runs when 0 < Iterations.
LockWriter(w) ==
    /\ ProcessAlive
    /\ wpc[w] = "lock_writer"
    /\ MutexFree(writerLock)
    /\ IF writerPoison
       THEN /\ panicking' = [panicking EXCEPT ![w] = TRUE]
            /\ wpc' = [wpc EXCEPT ![w] = "drop_stack_guard"]
            /\ UNCHANGED <<writerLock, acquired>>
       ELSE /\ writerLock' = w
            /\ wpc' = [wpc EXCEPT ![w] =
                         IF 0 < Iterations THEN "test_stack" ELSE "drop_writer_guard"]
            /\ acquired' = Append(acquired, w)
            /\ UNCHANGED panicking
    /\ UNCHANGED <<mainpc, spawned, joined, printed, witer, wstep, wret,
                   stackLock, stackPoison, writerPoison, top, buf, file,
                   writerRefs, sinkReleased, ioFailed>>
    /\ UNCHANGED <<npush, npop>>
    /\ UNCHANGED unitVars

\* Positions in the body of test_stack's loop  (main.rs:90-106):
\*   1 writeln Pushing 3i+1   2 push 3i+1   3 writeln Pushing 3i+2
\*   4 push 3i+2              5 pop         6 writeln of the pop
\*   7 writeln Pushing 3i+3   8 push 3i+3   9 pop
\*  10 writeln of the pop    11 pop        12 writeln of the pop
WritePushSteps == {1, 3, 7}
PushSteps == {2, 4, 8}
PopSteps == {5, 9, 11}
WritePopSteps == {6, 10, 12}

\* Faulty variant: the loop counts from 1, not from 0.
NextValueFromOne(i, step) ==
    IF step \in {1, 2} THEN (i + 1) * 3 + 1
    ELSE IF step \in {3, 4} THEN (i + 1) * 3 + 2
    ELSE (i + 1) * 3 + 3

\* next_value1, next_value2, next_value3 at the position that uses it.
NextValue(i, step) ==
    IF step \in {1, 2} THEN i * 3 + 1
    ELSE IF step \in {3, 4} THEN i * 3 + 2
    ELSE i * 3 + 3

\* The position after `step` of iteration i: the next position of the body,
\* the next iteration, or the return from test_stack.
Advance(w) ==
    IF wstep[w] < 12
    THEN /\ wstep' = [wstep EXCEPT ![w] = wstep[w] + 1]
         /\ UNCHANGED witer
         /\ wpc' = wpc
    ELSE /\ wstep' = [wstep EXCEPT ![w] = 1]
         /\ witer' = [witer EXCEPT ![w] = witer[w] + 1]
         /\ wpc' = [wpc EXCEPT ![w] =
                      IF witer[w] + 1 < Iterations THEN "test_stack"
                      ELSE "drop_writer_guard"]

\* Faulty variant: on an error the thread ends without running the drops of
\* its guards (they are leaked), so both mutexes stay locked.
WriteOrPanicLeak(w, line) ==
    \E o \in Writeln(buf, file, line) :
        /\ buf' = o.buf
        /\ file' = o.file
        /\ IF o.ok
           THEN /\ Advance(w)
                /\ UNCHANGED <<panicking, ioFailed>>
           ELSE /\ panicking' = [panicking EXCEPT ![w] = TRUE]
                /\ ioFailed' = TRUE
                /\ wpc' = [wpc EXCEPT ![w] = "drop_captures"]
                /\ UNCHANGED <<witer, wstep>>

\* writeln!(writer, ..).expect("Error writing to file") of `line`: on an
\* error the thread panics and starts to unwind.
WriteOrPanic(w, line) ==
    \E o \in Writeln(buf, file, line) :
        /\ buf' = o.buf
        /\ file' = o.file
        /\ IF o.ok
           THEN /\ Advance(w)
                /\ UNCHANGED <<panicking, ioFailed>>
           ELSE /\ panicking' = [panicking EXCEPT ![w] = TRUE]
                /\ ioFailed' = TRUE
                /\ wpc' = [wpc EXCEPT ![w] = "drop_writer_guard"]
                /\ UNCHANGED <<witer, wstep>>

\* writeln!(writer, "Pushing {}", next_value)  (main.rs:91, 95, 101)
WritePushing(w) ==
    /\ ProcessAlive
    /\ wpc[w] = "test_stack"
    /\ wstep[w] \in WritePushSteps
    /\ WriteOrPanic(w, PushingLine(w, NextValue(witer[w], wstep[w])))
    /\ UNCHANGED <<mainpc, spawned, joined, printed, wret, stackLock,
                   writerLock, stackPoison, writerPoison, top, writerRefs,
                   sinkReleased, acquired>>
    /\ UNCHANGED <<npush, npop>>
    /\ UNCHANGED unitVars

\* stack.push(next_value)  (main.rs:92, 96, 102)
Push(w) ==
    /\ ProcessAlive
    /\ wpc[w] = "test_stack"
    /\ wstep[w] \in PushSteps
    /\ top' = StackPush(top, NextValue(witer[w], wstep[w]))
    /\ Advance(w)
    /\ UNCHANGED <<mainpc, spawned, joined, printed, wret, panicking,
                   stackLock, writerLock, stackPoison, writerPoison, buf, file,
                   writerRefs, sinkReleased, ioFailed, acquired>>
    /\ npush' = npush + 1
    /\ UNCHANGED npop
    /\ UNCHANGED unitVars

\* pop_and_log, first half: stack.pop()  (main.rs:114)
Pop(w) ==
    /\ ProcessAlive
    /\ wpc[w] = "test_stack"
    /\ wstep[w] \in PopSteps
    /\ top' = StackPop(top).top
    /\ wret' = [wret EXCEPT ![w] = StackPop(top).ret]
    /\ Advance(w)
    /\ UNCHANGED <<mainpc, spawned, joined, printed, panicking, stackLock,
                   writerLock, stackPoison, writerPoison, buf, file,
                   writerRefs, sinkReleased, ioFailed, acquired>>
    /\ npop' = npop + (IF StackPop(top).ret # None THEN 1 ELSE 0)
    /\ UNCHANGED npush
    /\ UNCHANGED unitVars

\* Faulty variant: the line names the value next below the popped one.
PopLineStale(w, ret) ==
    IF ret # None THEN PoppedLine(w, ret[1] - 1) ELSE EmptyLine(w)

\* Faulty variant: the empty case is not told apart; a "Popped" line is
\* written with a default value.
PopLineNoEmpty(w, ret) == PoppedLine(w, IF ret # None THEN ret[1] ELSE 0)

\* The line pop_and_log writes for what pop returned  (main.rs:114-120)
PopLine(w, ret) == IF ret # None THEN PoppedLine(w, ret[1]) ELSE EmptyLine(w)

\* pop_and_log, second half: the writeln of the result  (main.rs:116, 119)
WritePopped(w) ==
    /\ ProcessAlive
    /\ wpc[w] = "test_stack"
    /\ wstep[w] \in WritePopSteps
    /\ WriteOrPanic(w, PopLine(w, wret[w]))
    /\ UNCHANGED <<mainpc, spawned, joined, printed, wret, stackLock,
                   writerLock, stackPoison, writerPoison, top, writerRefs,
                   sinkReleased, acquired>>
    /\ UNCHANGED <<npush, npop>>
    /\ UNCHANGED unitVars

\* Faulty variant: the guards are dropped in declaration order, the stack
\* guard first, while the writer guard is still held.
DropWriterGuardSwapped(w) ==
    /\ ProcessAlive
    /\ wpc[w] = "drop_writer_guard"
    /\ stackLock' = 0
    /\ stackPoison' = (stackPoison \/ panicking[w])
    /\ wpc' = [wpc EXCEPT ![w] = "drop_stack_guard"]
    /\ UNCHANGED <<mainpc, spawned, joined, printed, witer, wstep, wret,
                   panicking, writerLock, writerPoison, top, buf, file,
                   writerRefs, sinkReleased, ioFailed, acquired>>
    /\ UNCHANGED <<npush, npop>>
    /\ UNCHANGED unitVars

\* The closure's locals are dropped in reverse order of declaration: first
\* the writer guard; a guard dropped by a panicking thread poisons its mutex.
DropWriterGuard(w) ==
    /\ ProcessAlive
    /\ wpc[w] = "drop_writer_guard"
    /\ writerLock' = 0
    /\ writerPoison' = (writerPoison \/ panicking[w])
    /\ wpc' = [wpc EXCEPT ![w] = "drop_stack_guard"]
    /\ UNCHANGED <<mainpc, spawned, joined, printed, witer, wstep, wret,
                   panicking, stackLock, stackPoison, top, buf, file,
                   writerRefs, sinkReleased, ioFailed, acquired>>
    /\ UNCHANGED <<npush, npop>>
    /\ UNCHANGED unitVars

\* Faulty variant: the stack guard is leaked (never dropped), so the mutex stays
\* locked after the worker has gone.
DropStackGuardLeak(w) ==
    /\ ProcessAlive
    /\ wpc[w] = "drop_stack_guard"
    /\ wpc' = [wpc EXCEPT ![w] = "drop_captures"]
    /\ UNCHANGED <<mainpc, spawned, joined, printed, witer, wstep, wret,
                   panicking, stackLock, stackPoison, writerLock, writerPoison,
                   top, buf, file, writerRefs, sinkReleased, ioFailed, acquired>>
    /\ UNCHANGED <<npush, npop>>
    /\ UNCHANGED unitVars

\* ... then the stack guard.
DropStackGuard(w) ==
    /\ ProcessAlive
    /\ wpc[w] = "drop_stack_guard"
    /\ stackLock' = 0
    /\ stackPoison' = (stackPoison \/ panicking[w])
    /\ wpc' = [wpc EXCEPT ![w] = "drop_captures"]
    /\ UNCHANGED <<mainpc, spawned, joined, printed, witer, wstep, wret,
                   panicking, writerLock, writerPoison, top, buf, file,
                   writerRefs, sinkReleased, ioFailed, acquired>>
    /\ UNCHANGED <<npush, npop>>
    /\ UNCHANGED unitVars

\* The closure ends (by return or by unwinding): its captured Arcs are
\* dropped and the thread's result becomes available to join.
DropCaptures(w) ==
    /\ ProcessAlive
    /\ wpc[w] = "drop_captures"
    /\ ReleaseArc
    /\ wpc' = [wpc EXCEPT ![w] = "done"]
    /\ UNCHANGED <<mainpc, spawned, joined, printed, witer, wstep, wret,
                   panicking, stackLock, writerLock, stackPoison, writerPoison,
                   top, acquired>>
    /\ UNCHANGED <<npush, npop>>
    /\ UNCHANGED unitVars

WorkerStep(w) ==
    \/ LockStack(w)
    \/ LockWriter(w)
    \/ WritePushing(w)
    \/ Push(w)
    \/ Pop(w)
    \/ WritePopped(w)
    \/ DropWriterGuard(w)
    \/ DropStackGuard(w)
    \/ DropCaptures(w)

MainStep ==
    \/ CreateFile
    \/ SpawnWorker
    \/ SpawnDone
    \/ JoinWorker
    \/ JoinDone
    \/ PrintCompleted
    \/ ScopeEnd
    \/ MainUnwind

Next == MainStep \/ \E w \in Workers : WorkerStep(w)

Spec == Init /\ [][Next]_vars

\* The host scheduler keeps running every thread that can take a step: main
\* and each spawned worker are weakly fair.
FairSpec ==
    /\ Spec
    /\ WF_vars(MainStep)
    /\ \A w \in Workers : WF_vars(WorkerStep(w))

\* ------------------------------------------------- Stack<T> on its own
\* The stacks of depth at most d over Values.
RECURSIVE StacksUpTo(_)
StacksUpTo(d) ==
    IF d = 0 THEN {None}
    ELSE LET S == StacksUpTo(d - 1)
         IN  {None} \cup {Some(StackNode(v, t)) : v \in Values, t \in S}

\* A stack in any state, with nothing applied to it yet.
UnitInit ==
    /\ uinit \in StacksUpTo(MaxDepth)
    /\ ustack = uinit
    /\ uhist = <<>>

\* stack.push(v), recorded with the stack before and after.
UnitPush(v) ==
    /\ Len(uhist) < MaxOps
    /\ ustack' = StackPush(ustack, v)
    /\ uhist' = Append(uhist, [op |-> "push", arg |-> Some(v), ret |-> None,
                               before |-> ustack, after |-> ustack'])
    /\ UNCHANGED uinit
    /\ UNCHANGED progVars

\* stack.pop(), recorded with its result and the stack before and after.
UnitPop ==
    /\ Len(uhist) < MaxOps
    /\ ustack' = StackPop(ustack).top
    /\ uhist' = Append(uhist, [op |-> "pop", arg |-> None,
                               ret |-> StackPop(ustack).ret,
                               before |-> ustack, after |-> ustack'])
    /\ UNCHANGED uinit
    /\ UNCHANGED progVars

NextStack == UnitPop \/ \E v \in Values : UnitPush(v)

InitStack == ProgInit /\ UnitInit

SpecStack == InitStack /\ [][NextStack]_vars

\* pop_and_log(stack, writer) on the stack under test, called by thread 1:
\* stack.pop(), then the writeln of the result; a failed write panics.
UnitPopAndLog ==
    /\ Len(uhist) < MaxOps
    /\ ustack' = StackPop(ustack).top
    /\ \E o \in Writeln(buf, file, PopLine(1, StackPop(ustack).ret)) :
         /\ buf' = o.buf
         /\ file' = o.file
         /\ ioFailed' = (ioFailed \/ ~o.ok)
         /\ uhist' = Append(uhist, [op |-> "pop_and_log", arg |-> None,
                                    ret |-> StackPop(ustack).ret,
                                    before |-> ustack, after |-> ustack',
                                    ok |-> o.ok,
                                    logbefore |-> Len(Log), logafter |-> Len(Log')])
    /\ UNCHANGED uinit
    /\ UNCHANGED <<mainpc, spawned, joined, printed, wpc, witer, wstep, wret,
                   panicking, stackLock, writerLock, stackPoison, writerPoison,
                   top, writerRefs, sinkReleased, acquired, npush, npop>>

\* The last call made on the stack under test ended in a panic.
UnitPanicked ==
    /\ uhist # <<>>
    /\ uhist[Len(uhist)].op = "pop_and_log"
    /\ ~uhist[Len(uhist)].ok

\* push and pop_and_log applied in any order, until a panic.
NextPopLog ==
    \/ ~UnitPanicked /\ UnitPopAndLog
    \/ \E v \in Values : ~UnitPanicked /\ UnitPush(v)

SpecPopLog == InitStack /\ [][NextPopLog]_vars

\* The program, or the Stack<T> operations on their own: from the common
\* initial state either main starts (and the stack under test stays idle) or
\* operations are applied to the stack under test (and main never starts).
NextAll == (UnitIdle /\ Next) \/ (mainpc = "create" /\ NextStack)

SpecAll == InitStack /\ [][NextAll]_vars

\* =============================================================== claims
\* ---- helpers of the claims
Range(q) == {q[k] : k \in 1..Len(q)}
IsPrefix(p, q) == Len(p) <= Len(q) /\ SubSeq(q, 1, Len(p)) = p
IsBy(w, line) == line.by = w
\* The lines of worker w in q, in order, and their texts.
LinesBy(w, q) == SelectSeq(q, LAMBDA line : line.by = w)
TextsBy(w, q) == LET l == LinesBy(w, q) IN [k \in 1..Len(l) |-> l[k].text]
\* The six lines of block i as the specification lists them.
ExpectedBlock(i) ==
    << <<"Pushing", 3 * i + 1>>, <<"Pushing", 3 * i + 2>>, <<"Popped", 3 * i + 2>>,
       <<"Pushing", 3 * i + 3>>, <<"Popped", 3 * i + 3>>, <<"Popped", 3 * i + 1>> >>
RECURSIVE ExpectedBlocks(_)
ExpectedBlocks(k) == IF k = 0 THEN <<>> ELSE ExpectedBlocks(k - 1) \o ExpectedBlock(k - 1)
ExpectedLog == ExpectedBlocks(Iterations)
\* The owners of the maximal runs of same-owner lines of q, in order.
RECURSIVE Owners(_)
Owners(q) ==
    IF q = <<>> THEN <<>>
    ELSE LET r == Owners(SubSeq(q, 1, Len(q) - 1))
         IN  IF r # <<>> /\ r[Len(r)] = q[Len(q)].by THEN r
             ELSE Append(r, q[Len(q)].by)
InTestStack(w) == wpc[w] = "test_stack"
\* The worker returned from test_stack (it did not panic).
Finished(w) == wpc[w] \in {"drop_writer_guard", "drop_stack_guard", "drop_captures", "done"}
                 /\ ~panicking[w]
\* Lines were dropped by a failed flush when the BufWriter was dropped.
LinesLost == sinkReleased /\ ioFailed

\* ---- C1
\* C1 (mutual exclusion): in every reachable state at most one worker is
\* inside test_stack; no two workers' operation sequences overlap.
C1_MutualExclusion ==
    \A w1, w2 \in Workers : InTestStack(w1) /\ InTestStack(w2) => w1 = w2

\* A worker is part-way through test_stack while another worker waits for the
\* stack lock and a third has already finished its sequence.
C1_Witness ==
    \E w1, w2, w3 \in Workers :
        /\ InTestStack(w1) /\ witer[w1] = 1 /\ wstep[w1] = 5
        /\ wpc[w2] = "lock_stack"
        /\ wpc[w3] = "done" /\ ~panicking[w3]

\* ---- C2
\* C2 (one exclusivity domain): every push, pop and log append is made by a
\* worker that holds both the stack lock and the writer lock at that moment,
\* a worker inside test_stack holds both, and the two locks never have
\* different holders.
C2_JointDomain ==
    /\ [](/\ \A w \in Workers : InTestStack(w) => stackLock = w /\ writerLock = w
          /\ (stackLock # 0 /\ writerLock # 0 => stackLock = writerLock))
    /\ [][(top' # top \/ Len(Log') > Len(Log)) =>
            \E w \in Workers :
                /\ stackLock = w /\ writerLock = w
                /\ stackLock' = w /\ writerLock' = w
                /\ (Len(Log') > Len(Log) => Log'[Len(Log')].by = w)]_vars

\* A worker holding both locks has pushed and logged while another worker is
\* blocked on the stack lock.
C2_Witness ==
    \E w1, w2 \in Workers :
        /\ stackLock = w1 /\ writerLock = w1
        /\ top # None /\ Len(LinesBy(w1, Log)) >= 2
        /\ wpc[w2] = "lock_stack"

\* ---- C3
\* C3 (whole-sequence atomicity of the log): each worker's lines are
\* contiguous (no worker owns two separate runs of lines); a line of another
\* worker follows a worker's lines only after that worker appended all
\* 6 * Iterations lines; the blocks appear in the
\* order in which the workers acquired access; and on a completed run without
\* I/O failure the log is NumWorkers such blocks, one per worker.
C3_LogBlocks ==
    LET o == Owners(Log)
    IN  /\ \A a, b \in 1..Len(o) : a # b => o[a] # o[b]
        /\ \A i \in 1..(Len(Log) - 1) :
               Log[i].by # Log[i + 1].by =>
                   Len(LinesBy(Log[i].by, SubSeq(Log, 1, i))) = 6 * Iterations
        /\ IsPrefix(o, acquired)
        /\ (mainpc = "exited" /\ ~ioFailed =>
               /\ o = acquired
               /\ Range(acquired) = Workers
               /\ Len(acquired) = NumWorkers
               /\ \A w \in Workers : Len(LinesBy(w, Log)) = 6 * Iterations)

\* The run completed, and the workers acquired access in an order other than
\* the spawn order.
C3_Witness ==
    /\ mainpc = "exited" /\ ~ioFailed
    /\ Len(Log) = NumWorkers * Iterations * 6
    /\ acquired[1] # 1

\* ---- C4
\* C4 (per-worker determinism): the lines of each worker, in order, are
\* always a prefix of Pushing 3i+1, Pushing 3i+2, Popped 3i+2, Pushing 3i+3,
\* Popped 3i+3, Popped 3i+1 for i = 0, 1, ..; and exactly that sequence for
\* i < Iterations once the worker has returned from test_stack, whichever
\* workers ran before it.
C4_WorkerLog ==
    \A w \in Workers :
        /\ IsPrefix(TextsBy(w, Log), ExpectedLog)
        /\ (Finished(w) /\ ~LinesLost => TextsBy(w, Log) = ExpectedLog)

\* A worker that was not the first to acquire access has finished and its
\* lines are all in the log.
C4_Witness ==
    \E w \in Workers :
        /\ Finished(w) /\ ~LinesLost
        /\ Len(acquired) >= 2 /\ acquired[2] = w
        /\ Len(TextsBy(w, Log)) = 6 * Iterations

\* ---- C5
\* C5 (exact line count): on a run without failure, once the sink has been
\* released the file holds exactly NumWorkers * Iterations * 6 lines, each
\* worker's expected lines once; nothing is left in the buffer.
C5_ExactLines ==
    sinkReleased /\ ~ioFailed /\ mainpc = "exited" =>
        /\ buf = <<>>
        /\ Len(file) = NumWorkers * Iterations * 6
        /\ \A w \in Workers : TextsBy(w, file) = ExpectedLog

\* The sink was released at the end of a run without failure, the last lines
\* having reached the file only by the flush of the drop.
C5_Witness ==
    /\ sinkReleased /\ ~ioFailed /\ mainpc = "exited"
    /\ Len(file) = NumWorkers * Iterations * 6
    /\ NumWorkers * Iterations * 6 > BufCap

\* ---- C6
\* Every worker ran its whole sequence and ended without a panic, both locks
\* are free, and main joined all of them, printed and returned.
Completed ==
    /\ mainpc = "exited"
    /\ joined = NumWorkers
    /\ printed = 1
    /\ stackLock = 0 /\ writerLock = 0
    /\ \A w \in Workers : wpc[w] = "done" /\ ~panicking[w] /\ w \in Range(acquired)

\* C6 (no deadlock, no starvation): under a weakly fair scheduler, unless an
\* I/O operation fails, the program eventually completes with every worker
\* having acquired access, run its sequence, released access and been joined;
\* the process always ends; and while the process lives some thread can step.
C6_Progress ==
    /\ [](ProcessAlive => ENABLED Next)
    /\ <>(ioFailed \/ Completed)
    /\ <>(~ProcessAlive)

\* The program completed without failure, the last-spawned worker having been
\* the first to acquire access.
C6_Witness == Completed /\ ~ioFailed /\ acquired[1] = NumWorkers

\* ---- C7
\* C7 (completion indicator): "Program completed." is printed at most once,
\* only when every worker has run its sequence, released both locks, ended
\* and been joined; a run that returns from main has printed it exactly once,
\* and an aborted run never prints it.
C7_PrintedOnce ==
    /\ printed <= 1
    /\ (printed = 1 =>
            /\ joined = NumWorkers
            /\ stackLock = 0 /\ writerLock = 0
            /\ \A w \in Workers :
                   wpc[w] = "done" /\ ~panicking[w] /\ w \in Range(acquired))
    /\ (mainpc = "exited" => printed = 1)
    /\ (mainpc = "aborted" => printed = 0)

\* The indicator has just been printed, after all workers were joined.
C7_Witness == printed = 1 /\ mainpc = "scope_end" /\ joined = NumWorkers

\* ---- C8
\* C8 (flush before completion): whenever the completion indicator has been
\* printed, no appended line is still only in the writer's buffer.
C8_FlushedWhenPrinted == printed = 1 => buf = <<>>

\* ---- C9
\* C9 (LIFO order): wherever n pushes v1..vn are followed directly by n pops,
\* on whatever stack they started, the pops return Some(vn), .., Some(v1) in
\* that order.
C9_LIFO ==
    \A s \in 1..Len(uhist), n \in 0..Len(uhist) :
        ( /\ s + 2 * n - 1 <= Len(uhist)
          /\ \A k \in s..(s + n - 1) : uhist[k].op = "push"
          /\ \A k \in (s + n)..(s + 2 * n - 1) : uhist[k].op = "pop" )
        => \A j \in 1..n : uhist[s + n + j - 1].ret = uhist[s + n - j].arg

\* Three pushes, not all of the same value, then three pops, on a stack that
\* was not empty to begin with.
C9_Witness ==
    /\ uinit # None
    /\ Len(uhist) = 6
    /\ \A k \in 1..3 : uhist[k].op = "push"
    /\ \A k \in 4..6 : uhist[k].op = "pop"
    /\ uhist[1].arg # uhist[3].arg

\* ---- C10
\* C10 (push/pop round trip): a push(v) followed directly by a pop returns
\* Some(v) and leaves the stack as it was before the push, elements and order.
C10_RoundTrip ==
    \A k \in 1..(Len(uhist) - 1) :
        uhist[k].op = "push" /\ uhist[k + 1].op = "pop" =>
            /\ uhist[k + 1].ret = uhist[k].arg
            /\ uhist[k + 1].after = uhist[k].before
            /\ Elements(uhist[k + 1].after) = Elements(uhist[k].before)

\* A round trip on the empty stack and a round trip on a stack of two
\* different elements, in one history.
C10_Witness ==
    \E k1, k2 \in 1..(Len(uhist) - 1) :
        /\ uhist[k1].op = "push" /\ uhist[k1 + 1].op = "pop"
        /\ uhist[k1].before = None
        /\ uhist[k2].op = "push" /\ uhist[k2 + 1].op = "pop"
        /\ Len(Elements(uhist[k2].before)) = 2
        /\ Elements(uhist[k2].before)[1] # Elements(uhist[k2].before)[2]

\* ---- C11
\* The pushes and the pops that returned a value among the operations applied
\* to the stack under test.
UnitPushes == Cardinality({k \in 1..Len(uhist) : uhist[k].op = "push"})
UnitPopsSome ==
    Cardinality({k \in 1..Len(uhist) : uhist[k].op = "pop" /\ uhist[k].ret # None})

\* C11 (count invariant): the number of elements of a stack is the number it
\* started with (0 after new()) plus the pushes executed minus the pops that
\* returned a value, and pushes minus such pops is never negative from new();
\* in the program the shared stack holds npush - npop >= 0 elements in every
\* state, all workers counted together.
C11_Count ==
    /\ Len(Elements(ustack)) = Len(Elements(uinit)) + UnitPushes - UnitPopsSome
    /\ (uinit = StackNew => UnitPushes - UnitPopsSome >= 0)
    /\ Len(Elements(top)) = npush - npop
    /\ npush - npop >= 0

\* From new(): a pop of the empty stack, then pushes and a pop that returned a
\* value, leaving one element.
C11_Witness ==
    /\ uinit = StackNew
    /\ Len(uhist) >= 4
    /\ uhist[1].op = "pop" /\ uhist[1].ret = None
    /\ UnitPushes = 2 /\ UnitPopsSome = 1
    /\ Len(Elements(ustack)) = 1

\* ---- C12
\* C12 (empty-pop safety): pop_and_log on an empty stack gets None from pop,
\* leaves the stack empty, appends exactly one line, "Stack was empty, nothing
\* to pop", and (unless that write itself failed) returns so that the caller
\* can go on with its next operation.
C12_EmptyPop ==
    \A k \in 1..Len(uhist) :
        uhist[k].op = "pop_and_log" /\ uhist[k].before = None =>
            /\ uhist[k].ret = None
            /\ uhist[k].after = None
            /\ (uhist[k].ok =>
                   /\ uhist[k].logafter = uhist[k].logbefore + 1
                   /\ Log[uhist[k].logafter].text = <<"Stack was empty, nothing to pop">>
                   /\ (k = Len(uhist) /\ k < MaxOps => ENABLED NextPopLog))

\* pop_and_log found the stack empty twice, once on a new stack and once
\* after a push and the pop of it, and work went on after the second.
C12_Witness ==
    /\ uinit = None
    /\ Len(uhist) >= 5
    /\ uhist[1].op = "pop_and_log" /\ uhist[1].before = None /\ uhist[1].ok
    /\ uhist[2].op = "push"
    /\ uhist[3].op = "pop_and_log" /\ uhist[3].ret # None
    /\ uhist[4].op = "pop_and_log" /\ uhist[4].before = None /\ uhist[4].ok
    /\ uhist[5].op = "push"

\* ---- C13
\* A worker is unwinding, or has ended, from a panic raised inside its
\* operation sequence, that is while it held exclusive access.
PanickedHolding == \E w \in Workers : panicking[w] /\ w \in Range(acquired)

\* C13 (poisoning is fail-fast): once a worker has panicked while holding
\* exclusive access, no push, pop or log append is ever executed again and no
\* other worker enters the operation sequence; once the mutexes are poisoned
\* no worker holds the stack lock again, and every worker that ended without
\* having entered its sequence ended by a panic.
C13_PoisonFailFast ==
    /\ [](stackPoison =>
            /\ stackLock = 0 /\ writerLock = 0 /\ writerPoison
            /\ PanickedHolding
            /\ \A w \in Workers : wpc[w] \notin {"lock_writer", "test_stack"})
    /\ [](\A w \in Workers : wpc[w] = "done" /\ w \notin Range(acquired) => panicking[w])
    /\ [][PanickedHolding =>
            /\ top' = top /\ npush' = npush /\ npop' = npop
            /\ Len(Log') <= Len(Log)
            /\ acquired' = acquired]_vars

\* A worker panicked part-way, leaving an element on the stack, and a worker
\* that came to the lock afterwards has ended by a panic without entering its
\* sequence, while a third has not yet tried the lock.
C13_Witness ==
    \E w1, w2, w3 \in Workers :
        /\ panicking[w1] /\ w1 \in Range(acquired) /\ wpc[w1] = "done"
        /\ top # None
        /\ wpc[w2] = "done" /\ panicking[w2] /\ w2 \notin Range(acquired)
        /\ wpc[w3] = "lock_stack"

\* ---- C14
\* C14 (a write failure is never swallowed): on every run in which a write
\* to the file failed, the completion indicator is never printed and main
\* does not return with success.
C14_WriteFailureSurfaced == ioFailed => printed = 0 /\ mainpc # "exited"

\* The part of C14 about a write that fails inside a worker's sequence: the
\* worker panics, and a run with a panicked worker never prints the indicator
\* and never returns from main.
C14_PanicSurfaced ==
    (\E w \in Workers : panicking[w]) => printed = 0 /\ mainpc \notin {"print", "scope_end", "exited"}

\* ---- C15
\* C15 (access is released unconditionally): a worker that has ended, by
\* return or by panic, holds neither lock; under a weakly fair scheduler a
\* worker that panics while holding the stack lock always comes to release
\* it, so the workers waiting for it are let through (to fail on the poisoned
\* mutex), and main's join loop ends: the process terminates.
C15_ReleasedOnFailure ==
    /\ [](\A w \in Workers :
            wpc[w] \in {"drop_captures", "done"} => stackLock # w /\ writerLock # w)
    /\ ((\E w \in Workers : panicking[w] /\ stackLock = w)
            ~> (stackLock = 0 /\ stackPoison))
    /\ ((\E w \in Workers : panicking[w]) ~> (mainpc = "aborted"))

\* A worker panicked part-way and released both locks, and another worker,
\* which had been waiting, went through the stack lock and ended.
C15_Witness ==
    \E w1, w2 \in Workers :
        /\ w1 # w2
        /\ panicking[w1] /\ w1 \in Range(acquired) /\ wpc[w1] = "done"
        /\ witer[w1] = 1
        /\ stackLock = 0 /\ writerLock = 0
        /\ wpc[w2] = "done" /\ w2 \notin Range(acquired)

\* ---- C16
\* C16 as stated (the sequence leaves the stack non-empty): when a worker has
\* returned from test_stack and still holds the stack lock, the stack holds
\* at least one element.
C16_LeavesNonEmpty ==
    \A w \in Workers : Finished(w) /\ stackLock = w => top # None

\* C16 as amended (the sequence leaves the stack empty): when a worker has
\* returned from test_stack and still holds the stack lock, the stack holds
\* no element, every push having been matched by a pop that returned a value.
C16_LeavesEmpty ==
    \A w \in Workers :
        Finished(w) /\ stackLock = w => top = None /\ npush = npop

\* The second worker to acquire access has returned from test_stack and has
\* not yet dropped its guards.
C16_Witness ==
    \E w \in Workers :
        /\ Finished(w) /\ stackLock = w /\ writerLock = w
        /\ Len(acquired) = 2 /\ acquired[2] = w
        /\ npush = 2 * 3 * Iterations

\* ---- C17
\* main panicked in File::create(..).expect(..): the process has ended and no
\* writer was ever made (no Arc to it, no sink to release).
CreateFailed == mainpc = "aborted" /\ writerRefs = 0 /\ ~sinkReleased

\* C17 (sink-creation failure is fatal at startup): a failure of File::create
\* ends the process at once; then no worker was spawned, none ever starts, no
\* push, pop or log append has occurred or can occur, and the completion
\* indicator is not printed.
C17_CreateFailureFatal ==
    /\ [][mainpc = "create" /\ ioFailed' => CreateFailed']_vars
    /\ [](CreateFailed =>
            /\ ioFailed
            /\ spawned = 0
            /\ \A w \in Workers : wpc[w] = "unspawned"
            /\ npush = 0 /\ npop = 0 /\ top = None
            /\ Log = <<>>
            /\ acquired = <<>>
            /\ printed = 0
            /\ ~ENABLED Next)

\* File::create has failed.
C17_Witness == CreateFailed /\ ioFailed /\ spawned = 0

\* ---- C18
\* Replay of the lines q[k..] against a reference LIFO stack ref (a sequence,
\* top last): "Pushing v" pushes v, "Popped v" needs v on top and removes it,
\* the empty-stack line needs ref empty.
RECURSIVE Replay(_, _, _)
Replay(q, k, ref) ==
    IF k > Len(q) THEN TRUE
    ELSE LET t == q[k].text
         IN  IF t[1] = "Pushing" THEN Replay(q, k + 1, Append(ref, t[2]))
             ELSE IF t[1] = "Popped"
                  THEN /\ ref # <<>>
                       /\ ref[Len(ref)] = t[2]
                       /\ Replay(q, k + 1, SubSeq(ref, 1, Len(ref) - 1))
                  ELSE ref = <<>> /\ Replay(q, k + 1, ref)

\* C18 (the log is a faithful trace of the stack): a push puts on the stack
\* exactly the value named by the last line of the log, a "Pushing" line of
\* the pushing worker, and that worker's step after writing a "Pushing" line
\* is the push; a pop that returns a value returns the value that was on top
\* and removes it; a "Popped v" line names the value its worker's pop just
\* returned; and the whole log replays on a reference LIFO stack that starts
\* empty.
C18_FaithfulLog ==
    /\ [](Replay(Log, 1, <<>>))
    /\ [][npush' = npush + 1 =>
            /\ Log' = Log /\ Log # <<>>
            /\ top' # None /\ top'[1].next = top
            /\ Log[Len(Log)] = [by |-> stackLock, text |-> <<"Pushing", top'[1].data>>]]_vars
    /\ [][Len(Log') > Len(Log) /\ Log'[Len(Log')].text[1] = "Pushing" =>
            LET w == Log'[Len(Log')].by
            IN  top' = top /\ wpc'[w] = "test_stack" /\ wstep'[w] \in PushSteps]_vars
    /\ [][npop' = npop + 1 =>
            /\ top # None
            /\ wret'[stackLock] = <<top[1].data>>
            /\ top' = top[1].next]_vars
    /\ [][Len(Log') > Len(Log) /\ Log'[Len(Log')].text[1] = "Popped" =>
            LET w == Log'[Len(Log')].by
            IN  top' = top /\ wret[w] = <<Log'[Len(Log')].text[2]>>]_vars

\* The third worker to run has just logged the pop of the value 3i+1 of its
\* second block, below which nothing is left.
C18_Witness ==
    /\ Len(acquired) = 3
    /\ Log # <<>>
    /\ Log[Len(Log)] = [by |-> acquired[3], text |-> <<"Popped", 4>>]
    /\ top = None

\* ---- C19
\* C19 (lock ordering): the stack and the writer have a mutex each; a worker
\* takes the writer lock only while it holds the stack lock, and the stack
\* lock only while it holds nothing; it gives up the writer lock only when
\* its sequence has ended (all its lines logged, or a panic), and the stack
\* lock only after the writer lock.  So the holder of the writer lock always
\* holds the stack lock, and a worker that holds the stack lock and is about
\* to take the writer lock finds it free.
C19_LockOrder ==
    /\ [](writerLock # 0 => stackLock = writerLock)
    /\ [](\A w \in Workers :
            /\ (stackLock = w => writerLock \in {0, w})
            /\ (wpc[w] = "lock_writer" => stackLock = w /\ writerLock = 0))
    /\ [][\A w \in Workers :
            /\ (stackLock' = w /\ stackLock # w =>
                   wpc[w] = "lock_stack" /\ stackLock = 0 /\ writerLock = 0 /\ writerLock' = 0)
            /\ (writerLock' = w /\ writerLock # w =>
                   wpc[w] = "lock_writer" /\ writerLock = 0 /\ stackLock = w /\ stackLock' = w)
            /\ (writerLock = w /\ writerLock' # w =>
                   /\ writerLock' = 0 /\ stackLock = w /\ stackLock' = w
                   /\ (panicking[w] \/ Len(LinesBy(w, Log)) = 6 * Iterations))
            /\ (stackLock = w /\ stackLock' # w =>
                   stackLock' = 0 /\ writerLock = 0 /\ writerLock' = 0)]_vars

\* A worker holds the stack lock and is about to take the writer lock, which
\* an earlier worker has released; another worker waits for the stack lock.
C19_Witness ==
    \E w1, w2, w3 \in Workers :
        /\ wpc[w1] = "lock_writer" /\ stackLock = w1 /\ writerLock = 0
        /\ wpc[w2] = "lock_stack"
        /\ wpc[w3] \in {"drop_captures", "done"} /\ w3 \in Range(acquired)

\* ---- C20
\* C20 (the stack is empty whenever it is unlocked): on a run without
\* failure the stack is empty in every state in which no worker holds the
\* stack lock, when a worker is at the start of a block of its sequence, when
\* it has returned from the sequence, and when main has returned; the depth
\* is never more than 2; every pop finds an element and returns it; and the
\* line "Stack was empty, nothing to pop" is not in the log.
C20_EmptyWhenUnlocked ==
    ~ioFailed =>
        /\ (stackLock = 0 => top = None)
        /\ (mainpc = "exited" => top = None /\ stackLock = 0)
        /\ Len(Elements(top)) <= 2
        /\ \A w \in Workers :
              /\ (wpc[w] = "lock_writer" => top = None)
              /\ (InTestStack(w) /\ wstep[w] = 1 => top = None)
              /\ (Finished(w) /\ stackLock = w => top = None)
              /\ (InTestStack(w) /\ wstep[w] \in PopSteps => top # None)
              /\ (InTestStack(w) /\ wstep[w] \in WritePopSteps => wret[w] # None)
        /\ \A i \in 1..Len(Log) : Log[i].text # EmptyLine(Log[i].by).text

\* On a run without failure the third worker to acquire access has pushed
\* the first two values of its second block: the depth is 2, on a stack it
\* found empty at the start of the block, and the log holds 6 lines for every
\* block completed so far and 2 for this one.
C20_Witness ==
    \E w \in Workers :
        /\ ~ioFailed
        /\ Len(acquired) = 3 /\ acquired[3] = w
        /\ InTestStack(w) /\ witer[w] = 1 /\ wstep[w] = 5
        /\ Len(Elements(top)) = 2
        /\ Len(Log) = 2 * 6 * Iterations + 6 + 2

====
